---- MODULE Spec2Model ----
(***************************************************************************)
(* Model of the inventory service (src/main.py): the four tables Grocery,  *)
(* StockMovement, Food and FoodRecipe, and the request handlers that write *)
(* them.  A table keyed by a primary key is a function from the ids in use *)
(* to rows; a table read in rowid order is a sequence of rows.  Floats     *)
(* (unit_cost, quantity, prices) are modelled by integers; names are       *)
(* sequences of one-character strings so that str.strip() is computed.     *)
(***************************************************************************)
EXTENDS Integers, Sequences, FiniteSets, TLC

VARIABLES groceries, movements, foods, recipes, resp, workers

vars == <<groceries, movements, foods, recipes, resp, workers>>
store == <<groceries, movements, foods, recipes>>

(* ------------------------------ bounds -------------------------------- *)
MaxGroceryId == 2
MaxFoodId == 2
MaxStock == 1
MaxMovements == 1
NumWorkers == 2

(* ------------------------------ helpers ------------------------------- *)
Max(a, b) == IF a >= b THEN a ELSE b

SetMax(S) == CHOOSE m \in S : \A x \in S : x <= m

Whitespace == {" "}

RECURSIVE LStrip(_)
LStrip(s) ==
    IF s # <<>> /\ Head(s) \in Whitespace THEN LStrip(Tail(s)) ELSE s

RECURSIVE RStrip(_)
RStrip(s) ==
    IF s # <<>> /\ s[Len(s)] \in Whitespace
    THEN RStrip(SubSeq(s, 1, Len(s) - 1))
    ELSE s

\* str.strip(): leading and trailing whitespace removed
strip(s) == LStrip(RStrip(s))

\* the integer primary key the store gives a new row: one more than the
\* largest id in use (ids of deleted rows at the top are given again)
NextId(table) ==
    IF DOMAIN table = {} THEN 1 ELSE SetMax(DOMAIN table) + 1

\* Model.query.filter_by(name=name).first() is not None
NameExists(table, name) == \E i \in DOMAIN table : table[i].name = name

\* table with row i removed
Without(table, i) == [j \in DOMAIN table \ {i} |-> table[j]]

\* table with row i inserted or replaced
With(table, i, row) ==
    [j \in DOMAIN table \cup {i} |-> IF j = i THEN row ELSE table[j]]

\* the value of an optional request field (a sequence of length 0 or 1)
Has(field) == field # <<>>
Val(field) == field[1]

(* ----------------------------- responses ------------------------------ *)
Error(status, msg) == [status |-> status, msg |-> msg, data |-> <<>>]
Ok(status, msg, data) == [status |-> status, msg |-> msg, data |-> data]

\* Grocery.to_dict() (created_at left out)
GroceryDict(table, i) ==
    [id |-> i, name |-> table[i].name, stock |-> table[i].stock,
     threshold |-> table[i].threshold, unit_cost |-> table[i].unit_cost]

(* -------------------------- stock arithmetic -------------------------- *)
\* the stock create_grocery stores: int(data.get("stock", 0)) as given
CreatedStock(stock) == stock

\* the stock update_grocery stores: max(0, int(data["stock"]))
UpdatedStock(stock) == Max(0, stock)

\* InvalidQty with the test written "qty < 0"
InvalidQty_strict(qty) == qty < 0

\* the test "if qty <= 0" of add_stock and subtract_stock
InvalidQty(qty) == qty <= 0

\* g.stock += qty
AddedStock(stock, qty) == stock + qty

\* SubtractedStock without the clamp
SubtractedStock_unclamped(stock, qty) == stock - qty

\* g.stock = max(0, g.stock - qty)
SubtractedStock(stock, qty) == Max(0, stock - qty)

\* StockMovement(grocery_id=g.id, change=qty)
AddMovement(g_id, qty) == [grocery_id |-> g_id, change |-> qty]

\* StockMovement(grocery_id=g.id, change=-qty)
SubtractMovement(g_id, qty) == [grocery_id |-> g_id, change |-> -qty]

(* ------------------------------ costing ------------------------------- *)
\* the rows of table recs that belong to food_id, in table order
RecipesOf(recs, food_id) == SelectSeq(recs, LAMBDA r : r.food_id = food_id)

\* the rows of table recs that belong to other foods, in table order
RecipesNotOf(recs, food_id) == SelectSeq(recs, LAMBDA r : r.food_id # food_id)

\* LineCost with the quantity forgotten
LineCost_noqty(groc, r) ==
    IF r.grocery_id \in DOMAIN groc THEN groc[r.grocery_id].unit_cost ELSE 0

\* one turn of the loop of compute_food_cost: what row r adds to total
LineCost(groc, r) ==
    IF r.grocery_id \in DOMAIN groc /\ groc[r.grocery_id].unit_cost # 0
    THEN r.quantity * groc[r.grocery_id].unit_cost
    ELSE 0

RECURSIVE SumCost(_, _)
SumCost(groc, recs) ==
    IF recs = <<>> THEN 0
    ELSE LineCost(groc, Head(recs)) + SumCost(groc, Tail(recs))

\* compute_food_cost(food_id): the total it returns and stores
compute_food_cost(groc, recs, food_id) == SumCost(groc, RecipesOf(recs, food_id))

\* int(item.get("grocery_id") or item.get("id")) raises TypeError: the
\* grocery_id is falsy (0) and the item has no "id"
Raises(items) == \E k \in 1 .. Len(items) : items[k].grocery_id = 0

\* the test of the insert loop: qty > 0 and Grocery.query.get(g_id)
Accepted(groc, item) == item.quantity > 0 /\ item.grocery_id \in DOMAIN groc

RECURSIVE RecipeRows(_, _, _)
\* the FoodRecipe rows the insert loop of create_food / update_food adds
RecipeRows(groc, food_id, items) ==
    IF items = <<>> THEN <<>>
    ELSE (IF Accepted(groc, Head(items))
          THEN <<[food_id |-> food_id, grocery_id |-> Head(items).grocery_id,
                  quantity |-> Head(items).quantity]>>
          ELSE <<>>) \o RecipeRows(groc, food_id, Tail(items))

\* one entry of "groceries" in Food.to_dict(include_groceries=True)
LineDict(groc, r) ==
    [grocery_id |-> r.grocery_id, quantity |-> r.quantity,
     unit_cost |-> IF r.grocery_id \in DOMAIN groc
                   THEN groc[r.grocery_id].unit_cost ELSE 0,
     line_cost |-> r.quantity * (IF r.grocery_id \in DOMAIN groc
                                 THEN groc[r.grocery_id].unit_cost ELSE 0)]

\* Food.to_dict(include_groceries=True) (created_at, margin_percent left out)
FoodDict(ftable, groc, recs, i) ==
    [id |-> i, name |-> ftable[i].name,
     selling_price |-> ftable[i].selling_price,
     cost_price |-> ftable[i].cost_price,
     profit |-> ftable[i].selling_price - ftable[i].cost_price,
     groceries |-> [k \in 1 .. Len(RecipesOf(recs, i)) |->
                        LineDict(groc, RecipesOf(recs, i)[k])]]

(* --------------------------- grocery handlers ------------------------- *)
\* POST /grocery
create_grocery(data) ==
    LET name == strip(data.name)
        id == NextId(groceries)
        row == [name |-> name, threshold |-> data.threshold,
                stock |-> CreatedStock(data.stock), unit_cost |-> data.unit_cost]
    IN  /\ UNCHANGED <<movements, foods, recipes, workers>>
        /\ IF name = <<>>
           THEN /\ resp' = Error(400, "Name required")
                /\ UNCHANGED groceries
           ELSE IF NameExists(groceries, name)
           THEN /\ resp' = Error(400, "Grocery exists")
                /\ UNCHANGED groceries
           ELSE /\ id <= MaxGroceryId
                /\ groceries' = With(groceries, id, row)
                /\ resp' = Ok(201, "Created", <<GroceryDict(groceries', id)>>)

\* the row update_grocery leaves after a request that passed the name check
UpdatedGrocery(g, data) ==
    [name      |-> IF Has(data.name) THEN strip(Val(data.name)) ELSE g.name,
     threshold |-> IF Has(data.threshold) THEN Val(data.threshold) ELSE g.threshold,
     stock     |-> IF Has(data.stock) THEN UpdatedStock(Val(data.stock)) ELSE g.stock,
     unit_cost |-> IF Has(data.unit_cost) THEN Val(data.unit_cost) ELSE g.unit_cost]

\* the rename check of update_grocery answers "Name exists"
RenameRefused(table, id, data) ==
    /\ Has(data.name)
    /\ strip(Val(data.name)) # table[id].name
    /\ NameExists(table, strip(Val(data.name)))

\* update_grocery followed by compute_food_cost for every food
update_grocery_recosting(g_id, data) ==
    /\ UNCHANGED <<movements, recipes, workers>>
    /\ IF g_id \notin DOMAIN groceries
       THEN /\ resp' = Error(404, "Not found")
            /\ UNCHANGED <<groceries, foods>>
       ELSE IF RenameRefused(groceries, g_id, data)
       THEN /\ resp' = Error(400, "Name exists")
            /\ UNCHANGED <<groceries, foods>>
       ELSE /\ groceries' = With(groceries, g_id, UpdatedGrocery(groceries[g_id], data))
            /\ foods' = [f \in DOMAIN foods |->
                   [foods[f] EXCEPT !.cost_price = compute_food_cost(groceries', recipes, f)]]
            /\ resp' = Ok(200, "Updated", <<GroceryDict(groceries', g_id)>>)

\* PUT /grocery/<g_id>
update_grocery(g_id, data) ==
    /\ UNCHANGED <<movements, foods, recipes, workers>>
    /\ IF g_id \notin DOMAIN groceries
       THEN /\ resp' = Error(404, "Not found")
            /\ UNCHANGED groceries
       ELSE IF RenameRefused(groceries, g_id, data)
       THEN /\ resp' = Error(400, "Name exists")
            /\ UNCHANGED groceries
       ELSE /\ groceries' = With(groceries, g_id, UpdatedGrocery(groceries[g_id], data))
            /\ resp' = Ok(200, "Updated", <<GroceryDict(groceries', g_id)>>)

\* delete_grocery with the recipe rows of the grocery deleted along with it
delete_grocery_cascade(g_id) ==
    /\ UNCHANGED <<movements, foods, workers>>
    /\ IF g_id \notin DOMAIN groceries
       THEN /\ resp' = Error(404, "Not found")
            /\ UNCHANGED <<groceries, recipes>>
       ELSE /\ groceries' = Without(groceries, g_id)
            /\ recipes' = SelectSeq(recipes, LAMBDA r : r.grocery_id # g_id)
            /\ resp' = Ok(200, "Deleted", <<>>)

\* DELETE /grocery/<g_id>: the Grocery row alone is deleted
delete_grocery(g_id) ==
    /\ UNCHANGED <<movements, foods, recipes, workers>>
    /\ IF g_id \notin DOMAIN groceries
       THEN /\ resp' = Error(404, "Not found")
            /\ UNCHANGED groceries
       ELSE /\ groceries' = Without(groceries, g_id)
            /\ resp' = Ok(200, "Deleted", <<>>)

\* POST /grocery/<g_id>/add
add_stock(g_id, qty) ==
    /\ UNCHANGED <<foods, recipes, workers>>
    /\ IF g_id \notin DOMAIN groceries
       THEN /\ resp' = Error(404, "Not found")
            /\ UNCHANGED <<groceries, movements>>
       ELSE IF InvalidQty(qty)
       THEN /\ resp' = Error(400, "Invalid qty")
            /\ UNCHANGED <<groceries, movements>>
       ELSE /\ Len(movements) < MaxMovements
            /\ AddedStock(groceries[g_id].stock, qty) <= MaxStock
            /\ groceries' = [groceries EXCEPT
                   ![g_id].stock = AddedStock(groceries[g_id].stock, qty)]
            /\ movements' = Append(movements, AddMovement(g_id, qty))
            /\ resp' = Ok(200, "Added", <<GroceryDict(groceries', g_id)>>)

\* POST /grocery/<g_id>/subtract
subtract_stock(g_id, qty) ==
    /\ UNCHANGED <<foods, recipes, workers>>
    /\ IF g_id \notin DOMAIN groceries
       THEN /\ resp' = Error(404, "Not found")
            /\ UNCHANGED <<groceries, movements>>
       ELSE IF InvalidQty(qty)
       THEN /\ resp' = Error(400, "Invalid qty")
            /\ UNCHANGED <<groceries, movements>>
       ELSE /\ Len(movements) < MaxMovements
            /\ groceries' = [groceries EXCEPT
                   ![g_id].stock = SubtractedStock(groceries[g_id].stock, qty)]
            /\ movements' = Append(movements, SubtractMovement(g_id, qty))
            /\ resp' = Ok(200, "Subtracted", <<GroceryDict(groceries', g_id)>>)

(* ---------------------------- food handlers --------------------------- *)
\* POST /food
create_food(data) ==
    LET name == strip(data.name)
        id == NextId(foods)
        row == [name |-> name, selling_price |-> data.selling_price, cost_price |-> 0]
    IN  /\ UNCHANGED <<groceries, movements, workers>>
        /\ IF name = <<>>
           THEN /\ resp' = Error(400, "Name required")
                /\ UNCHANGED <<foods, recipes>>
           ELSE IF NameExists(foods, name)
           THEN /\ resp' = Error(400, "Food exists")
                /\ UNCHANGED <<foods, recipes>>
           ELSE IF Raises(data.groceries)
           THEN \* the Food row is committed, the loop's rows are not
                /\ id <= MaxFoodId
                /\ foods' = With(foods, id, row)
                /\ UNCHANGED recipes
                /\ resp' = Error(500, "Internal Server Error")
           ELSE /\ id <= MaxFoodId
                /\ recipes' = recipes \o RecipeRows(groceries, id, data.groceries)
                /\ foods' = With(foods, id,
                       [row EXCEPT !.cost_price = compute_food_cost(groceries, recipes', id)])
                /\ resp' = Ok(201, "Created", <<FoodDict(foods', groceries, recipes', id)>>)

\* GET /food/<f_id>
get_food(f_id) ==
    /\ UNCHANGED <<groceries, movements, foods, recipes, workers>>
    /\ IF f_id \notin DOMAIN foods
       THEN resp' = Error(404, "Not found")
       ELSE resp' = Ok(200, "", <<FoodDict(foods, groceries, recipes, f_id)>>)

\* the Food row update_food commits before it looks at "groceries"
UpdatedFood(f, data) ==
    [name |-> IF Has(data.name) THEN strip(Val(data.name)) ELSE f.name,
     selling_price |-> IF Has(data.selling_price)
                       THEN Val(data.selling_price) ELSE f.selling_price,
     cost_price |-> f.cost_price]

\* PUT /food/<f_id>
update_food(f_id, data) ==
    /\ UNCHANGED <<groceries, movements, workers>>
    /\ IF f_id \notin DOMAIN foods
       THEN /\ resp' = Error(404, "Not found")
            /\ UNCHANGED <<foods, recipes>>
       ELSE IF RenameRefused(foods, f_id, data)
       THEN /\ resp' = Error(400, "Food exists")
            /\ UNCHANGED <<foods, recipes>>
       ELSE IF Has(data.groceries) /\ Raises(Val(data.groceries))
       THEN \* the old rows are deleted and committed, the loop's rows are not,
            \* compute_food_cost is not reached
            /\ foods' = With(foods, f_id, UpdatedFood(foods[f_id], data))
            /\ recipes' = RecipesNotOf(recipes, f_id)
            /\ resp' = Error(500, "Internal Server Error")
       ELSE /\ recipes' =
                  IF Has(data.groceries)
                  THEN RecipesNotOf(recipes, f_id)
                           \o RecipeRows(groceries, f_id, Val(data.groceries))
                  ELSE recipes
            /\ foods' = With(foods, f_id,
                   [UpdatedFood(foods[f_id], data) EXCEPT
                       !.cost_price = compute_food_cost(groceries, recipes', f_id)])
            /\ resp' = Ok(200, "Updated", <<FoodDict(foods', groceries, recipes', f_id)>>)

\* DELETE /food/<f_id>
delete_food(f_id) ==
    /\ UNCHANGED <<groceries, movements, workers>>
    /\ IF f_id \notin DOMAIN foods
       THEN /\ resp' = Error(404, "Not found")
            /\ UNCHANGED <<foods, recipes>>
       ELSE /\ recipes' = RecipesNotOf(recipes, f_id)
            /\ foods' = Without(foods, f_id)
            /\ resp' = Ok(200, "Deleted", <<>>)

(* ------------------- add_stock, one statement at a time ---------------- *)
\* Each worker is one request thread of the threaded server, with its own
\* session.  Grocery.query.get reads the row outside any transaction;
\* commit() writes the value computed from that read.

\* add_stock up to "g.stock += qty": get the row, check qty
add_stock_load(w, g_id, qty) ==
    /\ workers[w].pc = "idle"
    /\ UNCHANGED <<groceries, movements, foods, recipes>>
    /\ IF g_id \notin DOMAIN groceries
       THEN /\ workers' = [workers EXCEPT ![w] =
                   [pc |-> "done", g_id |-> g_id, qty |-> qty, stock |-> 0, status |-> 404]]
            /\ resp' = Error(404, "Not found")
       ELSE IF InvalidQty(qty)
       THEN /\ workers' = [workers EXCEPT ![w] =
                   [pc |-> "done", g_id |-> g_id, qty |-> qty,
                    stock |-> groceries[g_id].stock, status |-> 400]]
            /\ resp' = Error(400, "Invalid qty")
       ELSE /\ workers' = [workers EXCEPT ![w] =
                   [pc |-> "loaded", g_id |-> g_id, qty |-> qty,
                    stock |-> groceries[g_id].stock, status |-> 0]]
            /\ UNCHANGED resp

\* add_stock_commit as one atomic increment of the stored stock
add_stock_commit_atomic(w) ==
    LET me == workers[w] IN
    /\ me.pc = "loaded"
    /\ me.g_id \in DOMAIN groceries
    /\ UNCHANGED <<foods, recipes>>
    /\ groceries' = [groceries EXCEPT ![me.g_id].stock = @ + me.qty]
    /\ movements' = Append(movements, [grocery_id |-> me.g_id, change |-> me.qty])
    /\ workers' = [workers EXCEPT ![w].pc = "done", ![w].status = 200]
    /\ resp' = [status |-> 200, msg |-> "Added",
                data |-> <<[id |-> me.g_id, name |-> groceries'[me.g_id].name,
                            stock |-> groceries'[me.g_id].stock,
                            threshold |-> groceries'[me.g_id].threshold,
                            unit_cost |-> groceries'[me.g_id].unit_cost]>>]

\* add_stock from "g.stock += qty" to the response: the UPDATE sets stock to
\* the value computed from the session's copy of the row
add_stock_commit(w) ==
    LET me == workers[w] IN
    /\ me.pc = "loaded"
    /\ me.g_id \in DOMAIN groceries
    /\ UNCHANGED <<foods, recipes>>
    /\ groceries' = [groceries EXCEPT ![me.g_id].stock = AddedStock(me.stock, me.qty)]
    /\ movements' = Append(movements, AddMovement(me.g_id, me.qty))
    /\ workers' = [workers EXCEPT ![w].pc = "done", ![w].status = 200]
    /\ resp' = Ok(200, "Added", <<GroceryDict(groceries', me.g_id)>>)

(* ------------------------------- Init --------------------------------- *)
NoResponse == [status |-> 0, msg |-> "", data |-> <<>>]

Workers == 1 .. NumWorkers

Idle == [pc |-> "idle", g_id |-> 0, qty |-> 0, stock |-> 0, status |-> 0]

\* the empty database after db.create_all(), no request handled yet
Init ==
    /\ groceries = <<>>
    /\ movements = <<>>
    /\ foods = <<>>
    /\ recipes = <<>>
    /\ resp = NoResponse
    /\ workers = [w \in Workers |-> Idle]

(* ------------------------ inventory requests -------------------------- *)
GroceryIds == 1 .. (MaxGroceryId + 1)

InvNames == {<<"a", " ">>, <<"b">>, <<" ">>}
InvStocks == {-1, 1}
InvQtys == {-1, 0, 1, MaxStock + 1}

InvCreateData ==
    [name : InvNames, threshold : {0}, stock : InvStocks, unit_cost : {0}]

InvUpdateData ==
    [name : {<<>>},
     threshold : {<<>>},
     stock : {<<>>} \cup {<<s>> : s \in InvStocks},
     unit_cost : {<<>>}]

NextInv ==
    \/ \E data \in InvCreateData : create_grocery(data)
    \/ \E g_id \in GroceryIds, data \in InvUpdateData : update_grocery(g_id, data)
    \/ \E g_id \in GroceryIds : delete_grocery(g_id)
    \/ \E g_id \in GroceryIds, qty \in InvQtys : add_stock(g_id, qty)
    \/ \E g_id \in GroceryIds, qty \in InvQtys : subtract_stock(g_id, qty)

SpecInv == Init /\ [][NextInv]_vars

(* -------------------------- costing requests -------------------------- *)
FoodIds == 1 .. (MaxFoodId + 1)

Item(g_id, qty) == [grocery_id |-> g_id, quantity |-> qty]

\* recipe lists: empty; two groceries, one of them twice, with a zero
\* quantity and an unknown grocery among them; a grocery_id of 0
CostLists ==
    { <<>>,
      <<Item(2, 2), Item(1, 0), Item(MaxGroceryId + 1, 1), Item(1, 1), Item(1, 1)>>,
      <<Item(1, 2), Item(0, 1)>> }

CostCreateGrocery ==
    [name : {<<"a">>, <<"b">>}, threshold : {0}, stock : {0}, unit_cost : {1}]

CostUpdateGrocery ==
    [name : {<<>>}, threshold : {<<>>}, stock : {<<>>}, unit_cost : {<<2>>}]

CostCreateFood ==
    [name : {<<"x">>, <<" ", "y">>}, selling_price : {5}, groceries : CostLists]

CostUpdateFood ==
    [name : {<<>>}, selling_price : {<<>>},
     groceries : {<<>>} \cup {<<L>> : L \in CostLists}]

NextCost ==
    \/ \E data \in CostCreateGrocery : create_grocery(data)
    \/ \E g_id \in GroceryIds, data \in CostUpdateGrocery : update_grocery(g_id, data)
    \/ \E g_id \in GroceryIds : delete_grocery(g_id)
    \/ \E data \in CostCreateFood : create_food(data)
    \/ \E f_id \in FoodIds, data \in CostUpdateFood : update_food(f_id, data)
    \/ \E f_id \in FoodIds : delete_food(f_id)

SpecCost == Init /\ [][NextCost]_vars

(* --------------------------- naming requests -------------------------- *)
NameInputs == {<<"a">>, <<" ", "a", " ">>, <<"b">>, <<" ">>}

NameCreateGrocery ==
    [name : NameInputs, threshold : {0}, stock : {0}, unit_cost : {0}]

NameUpdateGrocery ==
    [name : {<<>>} \cup {<<n>> : n \in NameInputs},
     threshold : {<<>>, <<1>>}, stock : {<<>>}, unit_cost : {<<>>}]

NameCreateFood ==
    [name : NameInputs, selling_price : {5}, groceries : {<<>>}]

NameUpdateFood ==
    [name : {<<>>} \cup {<<n>> : n \in NameInputs},
     selling_price : {<<>>, <<6>>}, groceries : {<<>>}]

NextNames ==
    \/ \E data \in NameCreateGrocery : create_grocery(data)
    \/ \E g_id \in GroceryIds, data \in NameUpdateGrocery : update_grocery(g_id, data)
    \/ \E g_id \in GroceryIds : delete_grocery(g_id)
    \/ \E data \in NameCreateFood : create_food(data)
    \/ \E f_id \in FoodIds, data \in NameUpdateFood : update_food(f_id, data)
    \/ \E f_id \in FoodIds : delete_food(f_id)

SpecNames == Init /\ [][NextNames]_vars

(* ------------------- requests around a deleted grocery ---------------- *)
OrphanCreateGrocery ==
    [name : {<<"a">>, <<"b">>}, threshold : {0}, stock : {0}, unit_cost : {1, 2}]

OrphanCreateFood ==
    [name : {<<"x">>}, selling_price : {5},
     groceries : {<<Item(1, 1), Item(2, 1)>>}]

OrphanUpdateFood ==
    [name : {<<>>}, selling_price : {<<>>}, groceries : {<<>>}]

NextOrphan ==
    \/ \E data \in OrphanCreateGrocery : create_grocery(data)
    \/ \E g_id \in GroceryIds : add_stock(g_id, 1)
    \/ \E g_id \in GroceryIds : delete_grocery(g_id)
    \/ \E data \in OrphanCreateFood : create_food(data)
    \/ \E f_id \in FoodIds, data \in OrphanUpdateFood : update_food(f_id, data)
    \/ \E f_id \in FoodIds : get_food(f_id)

SpecOrphan == Init /\ [][NextOrphan]_vars

(* ------------------------- concurrent add_stock ----------------------- *)
ConcCreateGrocery ==
    [name : {<<"a">>, <<"b">>}, threshold : {0}, stock : {0, 1}, unit_cost : {0}]

ConcQtys == {0, 1, 2}

NextConc ==
    \/ \E data \in ConcCreateGrocery : create_grocery(data)
    \/ \E w \in Workers, g_id \in GroceryIds, qty \in ConcQtys :
           add_stock_load(w, g_id, qty)
    \/ \E w \in Workers : add_stock_commit(w)

SpecConc == Init /\ [][NextConc]_vars

(* ============================== claims ================================ *)
IsFoodDict(d) == "cost_price" \in DOMAIN d
IsGroceryDict(d) == "stock" \in DOMAIN d

\* the response of a successful create_food or update_food
FoodWritten(r) ==
    /\ r.status \in {200, 201}
    /\ r.msg \in {"Created", "Updated"}
    /\ r.data # <<>>
    /\ IsFoodDict(r.data[1])

\* the response of a successful update_grocery
GroceryUpdated(r) ==
    /\ r.status = 200
    /\ r.msg = "Updated"
    /\ r.data # <<>>
    /\ IsGroceryDict(r.data[1])

\* what recipe line k is worth at the current unit costs
LineValue(groc, recs, k) ==
    IF recs[k].grocery_id \in DOMAIN groc
    THEN recs[k].quantity * groc[recs[k].grocery_id].unit_cost
    ELSE 0

RECURSIVE SumLines(_, _, _)
SumLines(groc, recs, K) ==
    IF K = {} THEN 0
    ELSE LET k == CHOOSE x \in K : TRUE
         IN  LineValue(groc, recs, k) + SumLines(groc, recs, K \ {k})

\* the sum over the recipe lines stored for food f, each line counted
RecipeCost(groc, recs, f) ==
    SumLines(groc, recs, {k \in 1 .. Len(recs) : recs[k].food_id = f})

Unique(table) ==
    \A i, j \in DOMAIN table : table[i].name = table[j].name => i = j

\* C1: every persisted Grocery has stock >= 0, whatever integers the
\* requests carried.
C1_StockNeverNegative == \A i \in DOMAIN groceries : groceries[i].stock >= 0

\* C2: names are unique in each table; a create whose trimmed name exists
\* answers the conflict error and persists nothing; an update that renames
\* to the name of another row answers the conflict error and changes nothing.
C2_NamesUnique ==
    [][/\ Unique(groceries') /\ Unique(foods')
       /\ \A data \in NameCreateGrocery :
            NameExists(groceries, strip(data.name)) /\ create_grocery(data)
            => resp' = Error(400, "Grocery exists") /\ UNCHANGED store
       /\ \A data \in NameCreateFood :
            NameExists(foods, strip(data.name)) /\ create_food(data)
            => resp' = Error(400, "Food exists") /\ UNCHANGED store
       /\ \A g_id \in GroceryIds, data \in NameUpdateGrocery :
            /\ g_id \in DOMAIN groceries
            /\ Has(data.name)
            /\ \E j \in DOMAIN groceries \ {g_id} :
                   groceries[j].name = strip(Val(data.name))
            /\ update_grocery(g_id, data)
            => resp' = Error(400, "Name exists") /\ UNCHANGED store
       /\ \A f_id \in FoodIds, data \in NameUpdateFood :
            /\ f_id \in DOMAIN foods
            /\ Has(data.name)
            /\ \E j \in DOMAIN foods \ {f_id} :
                   foods[j].name = strip(Val(data.name))
            /\ update_food(f_id, data)
            => resp' = Error(400, "Food exists") /\ UNCHANGED store
      ]_vars

\* C3: every persisted Grocery and Food has a non-empty name.
C3_NamesNonEmpty ==
    /\ \A i \in DOMAIN groceries : groceries[i].name # <<>>
    /\ \A i \in DOMAIN foods : foods[i].name # <<>>

C5_CostAfterFoodWrite ==
    FoodWritten(resp) =>
        /\ resp.data[1].id \in DOMAIN foods
        /\ foods[resp.data[1].id].cost_price =
               RecipeCost(groceries, recipes, resp.data[1].id)
        /\ resp.data[1].cost_price = foods[resp.data[1].id].cost_price

\* update_food of a food with a duplicated line and a line whose grocery
\* was deleted
C5_Witness ==
    /\ FoodWritten(resp) /\ resp.msg = "Updated"
    /\ foods[resp.data[1].id].cost_price > 0
    /\ \E j, k \in 1 .. Len(recipes) :
          /\ j # k
          /\ recipes[j] = recipes[k]
          /\ recipes[j].food_id = resp.data[1].id
    /\ \E k \in 1 .. Len(recipes) :
          /\ recipes[k].food_id = resp.data[1].id
          /\ recipes[k].grocery_id \notin DOMAIN groceries

\* C6 as stated: after an update_grocery every Food's cost_price is the sum
\* over its current recipe lines at the current unit costs.
C6_CostCurrentAfterGroceryUpdate ==
    GroceryUpdated(resp) =>
        \A f \in DOMAIN foods :
            foods[f].cost_price = RecipeCost(groceries, recipes, f)

\* C6 as amended: cost_price is recomputed only by create_food and
\* update_food of the food itself, and then equals the sum over its lines at
\* the current unit costs; update_grocery, also when it changes unit_cost,
\* leaves every Food row as it was.
C6_CostRecomputedByFoodWritesOnly ==
    [][/\ \A g_id \in GroceryIds, data \in CostUpdateGrocery :
            update_grocery(g_id, data) => foods' = foods
       /\ FoodWritten(resp') =>
            foods'[resp'.data[1].id].cost_price =
                RecipeCost(groceries', recipes', resp'.data[1].id)
      ]_vars

\* a unit_cost was changed and a food that uses the grocery keeps the old cost
C6_Witness ==
    /\ GroceryUpdated(resp)
    /\ resp.data[1].unit_cost = 2
    /\ \E f \in DOMAIN foods :
          /\ \E k \in 1 .. Len(recipes) :
                /\ recipes[k].food_id = f
                /\ recipes[k].grocery_id = resp.data[1].id
          /\ foods[f].cost_price > 0
          /\ foods[f].cost_price < RecipeCost(groceries, recipes, f)

\* C7: add_stock and subtract_stock answer 404 for an unknown id and 400 for
\* qty <= 0 on an existing grocery, the store unchanged in both cases;
\* add_stock with qty > 0 adds exactly qty to the stock of that grocery and
\* appends exactly one movement with change = +qty.
C7_StockRequestValidation ==
    [][\A g_id \in GroceryIds, qty \in InvQtys :
          /\ g_id \notin DOMAIN groceries
                 /\ (add_stock(g_id, qty) \/ subtract_stock(g_id, qty))
             => resp' = Error(404, "Not found") /\ UNCHANGED store
          /\ g_id \in DOMAIN groceries /\ qty <= 0
                 /\ (add_stock(g_id, qty) \/ subtract_stock(g_id, qty))
             => resp' = Error(400, "Invalid qty") /\ UNCHANGED store
          /\ g_id \in DOMAIN groceries /\ qty > 0 /\ add_stock(g_id, qty)
             => /\ groceries' = [groceries EXCEPT ![g_id].stock = @ + qty]
                /\ movements' =
                       movements \o <<[grocery_id |-> g_id, change |-> qty]>>
                /\ resp'.status = 200
      ]_vars

\* a refused quantity after a stock movement was recorded
C7_Witness ==
    /\ resp = Error(400, "Invalid qty")
    /\ Len(movements) > 0
    /\ \E i \in DOMAIN groceries : groceries[i].stock > 0

\* the rows update_food is to store for list L: one per entry with a
\* quantity > 0 and a grocery that exists, in the order of L
ExpectedLines(groc, f, L) ==
    LET kept == SelectSeq(L, LAMBDA it :
                    it.quantity > 0 /\ it.grocery_id \in DOMAIN groc)
    IN  [k \in 1 .. Len(kept) |->
            [food_id |-> f, grocery_id |-> kept[k].grocery_id,
             quantity |-> kept[k].quantity]]

\* C8: update_food with a groceries list L answers without error and leaves
\* as the lines of f exactly one line per entry of L with quantity > 0 and
\* an existing grocery, the lines of other foods unchanged, and cost_price 0
\* when L is empty; without a groceries field the lines are unchanged.
C8_UpdateFoodReplacesRecipe ==
    [][\A f_id \in FoodIds, data \in CostUpdateFood :
          f_id \in DOMAIN foods /\ update_food(f_id, data)
          => IF Has(data.groceries)
             THEN /\ resp'.status = 200
                  /\ RecipesOf(recipes', f_id) =
                         ExpectedLines(groceries, f_id, Val(data.groceries))
                  /\ RecipesNotOf(recipes', f_id) = RecipesNotOf(recipes, f_id)
                  /\ Val(data.groceries) = <<>>
                         => foods'[f_id].cost_price = 0
             ELSE recipes' = recipes
      ]_vars

\* C9: delete_grocery of an existing grocery removes that Grocery row and
\* nothing else: the other groceries, every Food row (its cost_price too),
\* every FoodRecipe row and every StockMovement row stay; get_food answers
\* the stored cost_price; a food's cost_price changes only in an update_food
\* of that food.
C9_DeleteLeavesDependents ==
    [][/\ \A g_id \in GroceryIds :
            g_id \in DOMAIN groceries /\ delete_grocery(g_id)
            => /\ DOMAIN groceries' = DOMAIN groceries \ {g_id}
               /\ \A j \in DOMAIN groceries' : groceries'[j] = groceries[j]
               /\ foods' = foods
               /\ recipes' = recipes
               /\ movements' = movements
       /\ \A f_id \in FoodIds :
            f_id \in DOMAIN foods /\ get_food(f_id)
            => /\ resp'.status = 200
               /\ resp'.data[1].cost_price = foods[f_id].cost_price
               /\ UNCHANGED store
       /\ \A f \in DOMAIN foods \cap DOMAIN foods' :
            foods'[f].cost_price # foods[f].cost_price
            => FoodWritten(resp') /\ resp'.msg = "Updated" /\ resp'.data[1].id = f
      ]_vars

\* get_food after the delete: the food is returned with the cost that still
\* counts the deleted grocery, whose recipe and movement rows are still there
C9_Witness ==
    /\ resp.status = 200 /\ resp.msg = "" /\ resp.data # <<>>
    /\ resp.data[1].cost_price > RecipeCost(groceries, recipes, resp.data[1].id)
    /\ \E k \in 1 .. Len(recipes) :
          /\ recipes[k].food_id = resp.data[1].id
          /\ recipes[k].grocery_id \notin DOMAIN groceries
          /\ \E m \in 1 .. Len(movements) :
                movements[m].grocery_id = recipes[k].grocery_id

\* the requests that added stock to grocery g and were answered 200
Added(g) ==
    {w \in Workers : /\ workers[w].pc = "done"
                     /\ workers[w].status = 200
                     /\ workers[w].g_id = g}

\* C10: add_stock writes the stock it read plus its qty, with no lock: once
\* requests on a grocery have succeeded, each has its movement row and the
\* stock is what one of them read plus that request's qty, which for two
\* requests that read the same stock is an increase by q1 or by q2 only.
C10_LastWriterWins ==
    /\ \A g \in DOMAIN groceries :
          Added(g) # {}
          => /\ groceries[g].stock \in
                    {workers[w].stock + workers[w].qty : w \in Added(g)}
             /\ \A w \in Added(g) : \E k \in 1 .. Len(movements) :
                    movements[k] = [grocery_id |-> g, change |-> workers[w].qty]
    /\ Len(movements) = Cardinality({w \in Workers : workers[w].status = 200})

\* two requests read the same stock, both succeeded, both rows are in the
\* ledger, and the stock rose by one qty only
C10_Witness ==
    \E g \in DOMAIN groceries : \E w1, w2 \in Added(g) :
        /\ w1 # w2
        /\ workers[w1].stock = workers[w2].stock
        /\ groceries[g].stock = workers[w1].stock + workers[w1].qty
        /\ groceries[g].stock <
               workers[w1].stock + workers[w1].qty + workers[w2].qty
        /\ Len(SelectSeq(movements, LAMBDA m : m.grocery_id = g)) = 2

====
